---- MODULE Spec2Model ----
(***************************************************************************)
(* Model of mtga_log.py: the log block scanner and decoder (MtgaLog),      *)
(* the card resolver (lookup_cards / lookup_card with the Scryfall         *)
(* fallback), the deck list wrapper (MtgaDeckList) and the formats lookup  *)
(* (MtgaFormats.get_format_sets).                                          *)
(*                                                                         *)
(* A log line is a sequence of tokens.  Tokens:                            *)
(*   "M"   the keyword searched for (text such as "<== Deck.GetDeck...")   *)
(*   "t"   any other text that is not JSON                                 *)
(*   "{" "}" "[" "]" ","   JSON punctuation                                *)
(*   "k"   an object key with its colon:  "k":                             *)
(*   "n"   a number literal                                                *)
(*   "so"  the string literal "{"  (a string holding an opening brace)     *)
(*   "sc"  the string literal "}"  (a string holding a closing brace)      *)
(***************************************************************************)
EXTENDS Integers, Sequences, FiniteSets, TLC

VARIABLES
    log,          \* lines of the log file read so far by the scan loop
    bucket,       \* get_last_keyword_block: bucket
    copy,         \* get_last_keyword_block: copy
    levels,       \* get_last_keyword_block: levels
    pc,           \* "scan" while the for loop runs, "done" after the call returned
    json_block,   \* what get_last_json_block returned or raised
    fallback,     \* MtgaLog.fallback
    gens,         \* the generators returned by lookup_cards, in creation order
    ret,          \* outcome of the latest call: what it returned, the remote call it made
    deck,         \* the MtgaDeckList built last
    formats_json, \* content of the formats file
    sets_result   \* outcome of the latest get_format_sets call

scanVars == <<log, bucket, copy, levels, pc, json_block>>
lookupVars == <<fallback, gens, ret>>
deckVars == <<deck>>
formatVars == <<formats_json, sets_result>>
vars == <<log, bucket, copy, levels, pc, json_block, fallback, gens, ret,
          deck, formats_json, sets_result>>

(***************************************************************************)
(* Bounds                                                                  *)
(***************************************************************************)
MaxLines == 4

(***************************************************************************)
(* Log lines                                                               *)
(***************************************************************************)
LogLines ==
    { <<"M">>,                    \* <== Keyword(5)
      <<"[", "t", "]", "M">>,     \* [Logger]<== Keyword(5)
      <<"t">>,                    \* plain text
      <<"{">>, <<"}">>, <<"[">>, <<"]">>,
      <<"k", "n">>,               \* "k": 1
      <<"k", "so">>,              \* "k": "{"
      <<"n">>,                    \* 1
      <<"{", "k", "n", "}">>,     \* {"k": 1}
      <<"{", "k", "sc", "}">> }   \* {"k": "}"}

StringTokens == {"so", "sc"}

\* str.count(ch) of one token
TokenCount(tok, ch) ==
    IF tok = ch THEN 1
    ELSE IF tok = "so" /\ ch = "{" THEN 1
    ELSE IF tok = "sc" /\ ch = "}" THEN 1
    ELSE 0

\* line.count(ch)
LineCount(line, ch) ==
    Cardinality({i \in DOMAIN line : TokenCount(line[i], ch) = 1})

\* line.find(keyword) > -1
HasKeyword(line) == \E i \in DOMAIN line : line[i] = "M"

Opens(line) == LineCount(line, "{") + LineCount(line, "[")
Closes(line) == LineCount(line, "}") + LineCount(line, "]")

(***************************************************************************)
(* json.loads on the joined lines                                          *)
(***************************************************************************)
JNum == [t |-> "num", s |-> "n", e |-> <<>>]
JStr(tok) == [t |-> "str", s |-> tok, e |-> <<>>]
JArr(elems) == [t |-> "arr", s |-> "", e |-> elems]
\* every key is "k": a dict keeps the value of the last occurrence of a key
JObj(members) ==
    [t |-> "obj", s |-> "",
     e |-> IF members = <<>> THEN <<>> ELSE <<members[Len(members)]>>]
MtgaLogParsingError == [t |-> "MtgaLogParsingError", s |-> "", e |-> <<>>]
NoValue == [t |-> "none", s |-> "", e |-> <<>>]

ParseFail == [ok |-> FALSE, val |-> NoValue, rest |-> <<>>]
ParseOk(v, r) == [ok |-> TRUE, val |-> v, rest |-> r]

RECURSIVE ParseValue(_), ParseElems(_, _), ParseMembers(_, _)
ParseValue(ts) ==
    IF ts = <<>> THEN ParseFail
    ELSE LET h == Head(ts)
             r == Tail(ts)
         IN  IF h = "n" THEN ParseOk(JNum, r)
             ELSE IF h \in StringTokens THEN ParseOk(JStr(h), r)
             ELSE IF h = "[" THEN
                 IF r # <<>> /\ Head(r) = "]" THEN ParseOk(JArr(<<>>), Tail(r))
                 ELSE ParseElems(r, <<>>)
             ELSE IF h = "{" THEN
                 IF r # <<>> /\ Head(r) = "}" THEN ParseOk(JObj(<<>>), Tail(r))
                 ELSE ParseMembers(r, <<>>)
             ELSE ParseFail

ParseElems(ts, acc) ==
    LET v == ParseValue(ts)
    IN  IF ~v.ok \/ v.rest = <<>> THEN ParseFail
        ELSE IF Head(v.rest) = "," THEN ParseElems(Tail(v.rest), Append(acc, v.val))
        ELSE IF Head(v.rest) = "]" THEN ParseOk(JArr(Append(acc, v.val)), Tail(v.rest))
        ELSE ParseFail

ParseMembers(ts, acc) ==
    IF ts = <<>> \/ Head(ts) # "k" THEN ParseFail
    ELSE LET v == ParseValue(Tail(ts))
         IN  IF ~v.ok \/ v.rest = <<>> THEN ParseFail
             ELSE IF Head(v.rest) = "," THEN ParseMembers(Tail(v.rest), Append(acc, v.val))
             ELSE IF Head(v.rest) = "}" THEN ParseOk(JObj(Append(acc, v.val)), Tail(v.rest))
             ELSE ParseFail

\* ''.join(json_list)
RECURSIVE Join(_)
Join(json_list) ==
    IF json_list = <<>> THEN <<>> ELSE Head(json_list) \o Join(Tail(json_list))

\* json.loads: the whole text must be one JSON value
IsJson(text) == LET p == ParseValue(text) IN p.ok /\ p.rest = <<>>
JsonLoads(text) == ParseValue(text).val

\* the ValueError is swallowed and False is returned in its place
list_to_json_return_false(json_list) ==
    IF IsJson(Join(json_list)) THEN JsonLoads(Join(json_list))
    ELSE [t |-> "false", s |-> "", e |-> <<>>]

\* _list_to_json inside get_last_json_block's try/except
list_to_json(json_list) ==
    IF IsJson(Join(json_list)) THEN JsonLoads(Join(json_list))
    ELSE MtgaLogParsingError

(***************************************************************************)
(* get_last_keyword_block / get_last_json_block                            *)
(***************************************************************************)
ScanInit ==
    /\ log = <<>>
    /\ bucket = <<>>
    /\ copy = FALSE
    /\ levels = 0
    /\ pc = "scan"
    /\ json_block = NoValue

\* the marker line is appended like any other line and the bucket is not reset
BucketAfterNoReset(b, c, line) ==
    IF c THEN Append(b, line) ELSE b

\* bucket after one iteration of the for loop
BucketAfter(b, c, line) ==
    IF HasKeyword(line) THEN <<>>
    ELSE IF c THEN Append(b, line)
    ELSE b

\* copy after one iteration of the for loop
CopyAfter(c, lv, line) ==
    IF Closes(line) > 0 /\ lv + Opens(line) - Closes(line) = 0 THEN FALSE
    ELSE IF HasKeyword(line) THEN TRUE
    ELSE c

\* one iteration of "for line in logfile"
ReadLine(line) ==
    /\ pc = "scan"
    /\ Len(log) < MaxLines
    /\ log' = Append(log, line)
    /\ bucket' = BucketAfter(bucket, copy, line)
    /\ copy' = CopyAfter(copy, levels, line)
    /\ levels' = levels + Opens(line) - Closes(line)
    /\ UNCHANGED <<pc, json_block>>

\* end of file: the block is returned and decoded
EndOfFile ==
    /\ pc = "scan"
    /\ pc' = "done"
    /\ json_block' = list_to_json(bucket)
    /\ UNCHANGED <<log, bucket, copy, levels>>

(***************************************************************************)
(* Card resolver: lookup_cards, lookup_card, _fetch_card_from_scryfall      *)
(***************************************************************************)
MaxPairs == 2
MaxGens == 1

\* identifier 1 is in all_mtga_cards; 2 and 3 are not;
\* scryfall.get_mtga_card returns a card for 2 and raises for 3
CardIds == {1, 2, 3}
LocalIds == {1}
RemoteIds == {2}
\* the (mtga_id, count) pairs the inputs are made of
PairValues == {<<1, 4>>, <<2, 1>>, <<3, 2>>}

Card(kind, mtga_id) == [kind |-> kind, id |-> mtga_id]
None == Card("None", 0)

\* all_mtga_cards.find_one(mtga_id): raises ValueError for an unknown id
find_one(mtga_id) ==
    IF mtga_id \in LocalIds
    THEN [raised |-> FALSE, card |-> Card("card", mtga_id)]
    ELSE [raised |-> TRUE, card |-> None]

\* scryfall.get_mtga_card(mtga_id)
get_mtga_card(mtga_id) ==
    IF mtga_id \in RemoteIds
    THEN [raised |-> FALSE, card |-> Card("scryfall_card", mtga_id)]
    ELSE [raised |-> TRUE, card |-> None]

\* the fallback flag is not consulted
fetch_card_ignoring_flag(mtga_id, fb) ==
    LET r == get_mtga_card(mtga_id)
    IN  IF r.raised
        THEN [card |-> Card("ScryfallError", mtga_id), raised |-> FALSE, remote |-> mtga_id]
        ELSE [card |-> r.card, raised |-> FALSE, remote |-> mtga_id]

\* the remote call is not wrapped in try/except
fetch_card_no_except(mtga_id, fb) ==
    IF ~fb THEN [card |-> None, raised |-> FALSE, remote |-> 0]
    ELSE LET r == get_mtga_card(mtga_id)
         IN  [card |-> r.card, raised |-> r.raised, remote |-> mtga_id]

\* _fetch_card_from_scryfall with self.fallback = fb:
\* the card returned, the exception that escapes, the id asked of the remote service (0: none)
fetch_card_from_scryfall(mtga_id, fb) ==
    IF ~fb THEN [card |-> None, raised |-> FALSE, remote |-> 0]
    ELSE LET r == get_mtga_card(mtga_id)
         IN  IF r.raised
             THEN [card |-> Card("ScryfallError", mtga_id), raised |-> FALSE, remote |-> mtga_id]
             ELSE [card |-> r.card, raised |-> FALSE, remote |-> mtga_id]

\* the remote service is asked whether or not the local index has the card
lookup_card_remote_first(mtga_id, fb) ==
    IF fetch_card_from_scryfall(mtga_id, fb).card # None
    THEN fetch_card_from_scryfall(mtga_id, fb)
    ELSE [card |-> find_one(mtga_id).card, raised |-> FALSE, remote |-> 0]

\* lookup_card with self.fallback = fb
lookup_card(mtga_id, fb) ==
    IF ~find_one(mtga_id).raised
    THEN [card |-> find_one(mtga_id).card, raised |-> FALSE, remote |-> 0]
    ELSE fetch_card_from_scryfall(mtga_id, fb)

(***************************************************************************)
(* A generator returned by lookup_cards.                                   *)
(*   pairs  list_of_pairs                                                  *)
(*   i      index of the pair the for loop is at                           *)
(*   at     "start": not started, or suspended at the yield of line 102    *)
(*          "miss": suspended at the yield of line 97                      *)
(*          "done": exhausted; "raised": ended by an exception             *)
(*   out    what the consumer received so far; pos is the index of the     *)
(*          pair an element was yielded for                                *)
(*   fb0    self.fallback when lookup_cards was called                     *)
(***************************************************************************)
NewGen(list_of_pairs, fb) ==
    [pairs |-> list_of_pairs, i |-> 1, at |-> "start", out |-> <<>>, fb0 |-> fb]

Elem(g, card) ==
    [pos |-> g.i, item |-> <<g.pairs[g.i][1], card, g.pairs[g.i][2]>>]

\* lines 93-97 and 101-102: take the next pair, look it up locally, yield
LoopStep(g) ==
    IF g.i > Len(g.pairs) THEN [g EXCEPT !.at = "done"]
    ELSE LET f == find_one(g.pairs[g.i][1])
         IN  IF f.raised
             THEN [g EXCEPT !.out = Append(@, Elem(g, Card("MtgaUnknownCard", g.pairs[g.i][1]))),
                            !.at = "miss"]
             ELSE [g EXCEPT !.out = Append(@, Elem(g, f.card)),
                            !.i = @ + 1,
                            !.at = "start"]

\* the flag is read when lookup_cards is called, not when the element is consumed
ResumeFlagAtCall(g, fb) ==
    LET r == fetch_card_from_scryfall(g.pairs[g.i][1], g.fb0)
    IN  IF r.raised THEN [g EXCEPT !.at = "raised"]
        ELSE IF r.card # None
        THEN [g EXCEPT !.out = Append(@, Elem(g, r.card)), !.i = @ + 1, !.at = "start"]
        ELSE LoopStep([g EXCEPT !.i = @ + 1, !.at = "start"])

\* lines 99-102: resumed after the yield of line 97
Resume(g, fb) ==
    LET r == fetch_card_from_scryfall(g.pairs[g.i][1], fb)
    IN  IF r.raised THEN [g EXCEPT !.at = "raised"]
        ELSE IF r.card # None
        THEN [g EXCEPT !.out = Append(@, Elem(g, r.card)), !.i = @ + 1, !.at = "start"]
        ELSE LoopStep([g EXCEPT !.i = @ + 1, !.at = "start"])

\* next(generator) with self.fallback = fb
NextGen(g, fb) ==
    IF g.at = "start" THEN LoopStep(g)
    ELSE IF g.at = "miss" THEN Resume(g, fb)
    ELSE g

\* the id next(generator) asks of the remote service (0: none)
NextRemote(g, fb) ==
    IF g.at = "miss" THEN fetch_card_from_scryfall(g.pairs[g.i][1], fb).remote ELSE 0

RECURSIVE SeqsUpTo(_, _)
SeqsUpTo(S, n) ==
    IF n = 0 THEN {<<>>}
    ELSE LET shorter == SeqsUpTo(S, n - 1)
         IN  shorter \cup {Append(s, x) : s \in shorter, x \in S}

\* the lists given to lookup_cards: up to MaxPairs pairs, no pair twice
PairLists ==
    {ps \in SeqsUpTo(PairValues, MaxPairs) :
        \A a, b \in DOMAIN ps : a # b => ps[a] # ps[b]}

\* iteritems(collection): the keys of a decoded mapping are distinct
CollectionItems ==
    {ps \in PairLists : \A a, b \in DOMAIN ps : a # b => ps[a][1] # ps[b][1]}

\* op: the call; arg: the generator or identifier it was given; card, raised: what
\* it returned or raised; remote: the id it asked of the remote service (0: none)
NoCall == [op |-> "none", arg |-> 0, card |-> None, raised |-> "", remote |-> 0]

LookupInit ==
    /\ fallback = TRUE
    /\ gens = <<>>
    /\ ret = NoCall

\* scryfall_fallback(fallback)
scryfall_fallback(b) ==
    /\ fallback' = b
    /\ ret' = [NoCall EXCEPT !.op = "scryfall_fallback"]
    /\ UNCHANGED gens

\* lookup_cards(list_of_pairs): returns a generator, runs none of its body
lookup_cards(list_of_pairs) ==
    /\ Len(gens) < MaxGens
    /\ gens' = Append(gens, NewGen(list_of_pairs, fallback))
    /\ ret' = [NoCall EXCEPT !.op = "lookup_cards"]
    /\ UNCHANGED fallback

\* get_collection(): the last collection block of the log decodes to a mapping
get_collection(collection) ==
    /\ Len(gens) < MaxGens
    /\ gens' = Append(gens, NewGen(collection, fallback))
    /\ ret' = [NoCall EXCEPT !.op = "get_collection"]
    /\ UNCHANGED fallback

\* get_collection(): the log holds no decodable collection block
get_collection_fails ==
    /\ Len(gens) < MaxGens
    /\ ret' = [NoCall EXCEPT !.op = "get_collection", !.raised = "MtgaLogParsingError"]
    /\ UNCHANGED <<fallback, gens>>

\* the caller takes the next element of generator k
Consume(k) ==
    /\ gens[k].at \in {"start", "miss"}
    /\ gens' = [gens EXCEPT ![k] = NextGen(gens[k], fallback)]
    /\ ret' = [NoCall EXCEPT !.op = "next", !.arg = k,
                             !.remote = NextRemote(gens[k], fallback)]
    /\ UNCHANGED fallback

\* lookup_card(mtga_id)
LookupCard(mtga_id) ==
    /\ LET r == lookup_card(mtga_id, fallback)
       IN  ret' = [NoCall EXCEPT !.op = "lookup_card", !.card = r.card,
                                 !.raised = IF r.raised THEN "Exception" ELSE "",
                                 !.remote = r.remote, !.arg = mtga_id]
    /\ UNCHANGED <<fallback, gens>>

(***************************************************************************)
(* MtgaDeckList                                                            *)
(***************************************************************************)
MaxDeckLen == 3

DeckKeys == {"mainDeck", "sideboard", "deckTileId"}

\* zip(*[iter(flat)]*2)
Zip2(flat) == [j \in 1..(Len(flat) \div 2) |-> <<flat[2 * j - 1], flat[2 * j]>>]

\* the entries of a decoded deck lists block: keys are the keys the entry has
DeckEntries ==
    [keys : {DeckKeys} \cup {DeckKeys \ {x} : x \in DeckKeys},
     mainDeck : SeqsUpTo(CardIds, MaxDeckLen),
     sideboard : SeqsUpTo(LocalIds \cup RemoteIds, MaxDeckLen - 1),
     deckTileId : CardIds]

NoGen == NewGen(<<>>, TRUE)
NoDeck ==
    [built |-> FALSE, raised |-> "", deck_list_json |-> <<>>,
     maindeck |-> NoGen, sideboard |-> NoGen, deckbox_image |-> None]

DeckInit == deck = NoDeck

\* MtgaDeckList(deck_list_json, card_lookup); one deck list is built per run
MtgaDeckList(j) ==
    /\ deck = NoDeck
    /\ deck' =
         IF DeckKeys \ j.keys # {}
         THEN [NoDeck EXCEPT !.raised = "KeyError", !.deck_list_json = <<j>>]
         ELSE [built |-> TRUE, raised |-> "", deck_list_json |-> <<j>>,
               maindeck |-> NewGen(Zip2(j.mainDeck), fallback),
               sideboard |-> NewGen(Zip2(j.sideboard), fallback),
               deckbox_image |-> lookup_card(j.deckTileId, fallback).card]
    /\ ret' = IF DeckKeys \ j.keys # {}
              THEN [NoCall EXCEPT !.op = "MtgaDeckList", !.raised = "KeyError"]
              ELSE [NoCall EXCEPT !.op = "MtgaDeckList", !.arg = j.deckTileId,
                                  !.remote = lookup_card(j.deckTileId, fallback).remote]
    /\ UNCHANGED <<fallback, gens>>

\* the caller takes the next element of deck.maindeck
NextMaindeck ==
    /\ deck.built
    /\ deck.maindeck.at \in {"start", "miss"}
    /\ deck' = [deck EXCEPT !.maindeck = NextGen(@, fallback)]
    /\ ret' = [NoCall EXCEPT !.op = "next", !.remote = NextRemote(deck.maindeck, fallback)]
    /\ UNCHANGED <<fallback, gens>>

\* the caller takes the next element of deck.sideboard
NextSideboard ==
    /\ deck.built
    /\ deck.sideboard.at \in {"start", "miss"}
    /\ deck' = [deck EXCEPT !.sideboard = NextGen(@, fallback)]
    /\ ret' = [NoCall EXCEPT !.op = "next", !.remote = NextRemote(deck.sideboard, fallback)]
    /\ UNCHANGED <<fallback, gens>>

(***************************************************************************)
(* MtgaFormats.get_format_sets                                             *)
(* A format name is a sequence of the letters "s" and "S".                 *)
(***************************************************************************)
MaxFormats == 2
MaxName == 2
MaxSets == 2

Letters == {"s", "S"}
SetCodes == {"DAR", "GRN"}

\* str.lower() of one letter
LowerLetter(ch) == IF ch = "S" THEN "s" ELSE ch

\* str.lower()
Lower(name) == [i \in DOMAIN name |-> LowerLetter(name[i])]

FormatNames == SeqsUpTo(Letters, MaxName) \ {<<>>}
FormatItems == [name : FormatNames, sets : SeqsUpTo(SetCodes, MaxSets)]
FormatTables == SeqsUpTo(FormatItems, MaxFormats)

\* lines 151-154: the sets of one item, "DOM" appended after "DAR"
RECURSIVE AppendSets(_, _)
AppendSets(sets, item_sets) ==
    IF item_sets = <<>> THEN sets
    ELSE LET mtga_set == Head(item_sets)
             one == Append(sets, mtga_set)
         IN  AppendSets(IF mtga_set = "DAR" THEN Append(one, "DOM") ELSE one,
                        Tail(item_sets))

\* line 150: item.get("name").lower() == str(mtg_format)
NameMatches(item, mtg_format) == Lower(item.name) = mtg_format

\* lines 148-155
RECURSIVE FormatSets(_, _, _)
FormatSets(json_data, mtg_format, sets) ==
    IF json_data = <<>> THEN sets
    ELSE FormatSets(Tail(json_data), mtg_format,
                    IF NameMatches(Head(json_data), mtg_format)
                    THEN AppendSets(sets, Head(json_data).sets)
                    ELSE sets)

NoSets == [called |-> FALSE, mtg_format |-> <<>>, raised |-> "", sets |-> <<>>]

\* the formats file holds a table, or text that is not JSON
FormatsInit ==
    /\ formats_json \in [valid : {TRUE}, data : FormatTables]
                        \cup {[valid |-> FALSE, data |-> <<>>]}
    /\ sets_result = NoSets

\* get_format_sets(mtg_format)
get_format_sets(mtg_format) ==
    /\ sets_result' =
         IF ~formats_json.valid
         THEN [called |-> TRUE, mtg_format |-> mtg_format,
               raised |-> "MtgaLogParsingError", sets |-> <<>>]
         ELSE [called |-> TRUE, mtg_format |-> mtg_format, raised |-> "",
               sets |-> FormatSets(formats_json.data, mtg_format, <<>>)]
    /\ UNCHANGED formats_json

(***************************************************************************)
(* Specifications                                                          *)
(***************************************************************************)
ScanIdle == ScanInit
LookupIdle == LookupInit
DeckIdle == DeckInit
FormatsIdle ==
    /\ formats_json = [valid |-> FALSE, data |-> <<>>]
    /\ sets_result = NoSets

\* one call of get_last_json_block on a log file
InitScan == ScanInit /\ LookupIdle /\ DeckIdle /\ FormatsIdle
NextScan ==
    \/ \E line \in LogLines : ReadLine(line) /\ UNCHANGED <<lookupVars, deckVars, formatVars>>
    \/ EndOfFile /\ UNCHANGED <<lookupVars, deckVars, formatVars>>
SpecScan == InitScan /\ [][NextScan]_vars

\* calls on one MtgaLog object and the consumption of the generators it returned
InitLookup == ScanIdle /\ LookupInit /\ DeckIdle /\ FormatsIdle
NextLookup ==
    \/ \E b \in BOOLEAN : scryfall_fallback(b) /\ UNCHANGED <<scanVars, deckVars, formatVars>>
    \/ \E ps \in PairLists : lookup_cards(ps) /\ UNCHANGED <<scanVars, deckVars, formatVars>>
    \/ \E c \in CollectionItems : get_collection(c) /\ UNCHANGED <<scanVars, deckVars, formatVars>>
    \/ get_collection_fails /\ UNCHANGED <<scanVars, deckVars, formatVars>>
    \/ \E k \in DOMAIN gens : Consume(k) /\ UNCHANGED <<scanVars, deckVars, formatVars>>
    \/ \E id \in CardIds : LookupCard(id) /\ UNCHANGED <<scanVars, deckVars, formatVars>>
SpecLookup == InitLookup /\ [][NextLookup]_vars

\* deck lists built from decoded entries, and the consumption of their card lists
InitDeck == ScanIdle /\ LookupInit /\ DeckInit /\ FormatsIdle
NextDeck ==
    \/ deck = NoDeck /\ \E j \in DeckEntries : MtgaDeckList(j) /\ UNCHANGED <<scanVars, formatVars>>
    \/ NextMaindeck /\ UNCHANGED <<scanVars, formatVars>>
    \/ NextSideboard /\ UNCHANGED <<scanVars, formatVars>>
    \/ \E b \in BOOLEAN : scryfall_fallback(b) /\ UNCHANGED <<scanVars, deckVars, formatVars>>
SpecDeck == InitDeck /\ [][NextDeck]_vars

\* get_format_sets calls on one formats file
InitFormats == ScanIdle /\ LookupIdle /\ DeckIdle /\ FormatsInit
NextFormats ==
    \E q \in FormatNames : get_format_sets(q) /\ UNCHANGED <<scanVars, lookupVars, deckVars>>
SpecFormats == InitFormats /\ [][NextFormats]_vars

(***************************************************************************)
(* Properties of the block scanner and decoder                             *)
(***************************************************************************)
\* index of the last line of f holding the keyword (0: none)
LastMarker(f) ==
    IF \E i \in DOMAIN f : HasKeyword(f[i])
    THEN CHOOSE i \in DOMAIN f :
             HasKeyword(f[i]) /\ \A j \in DOMAIN f : HasKeyword(f[j]) => j <= i
    ELSE 0

\* the running depth counter after line i of f, counted from the start of the file
RECURSIVE DepthAfter(_, _)
DepthAfter(f, i) ==
    IF i = 0 THEN 0 ELSE DepthAfter(f, i - 1) + Opens(f[i]) - Closes(f[i])

\* the counter returns to zero on line i, a line with a closing delimiter
ClosesAt(f, i) == Closes(f[i]) > 0 /\ DepthAfter(f, i) = 0

\* the marker occurs and the counter never returns to zero on a closing-delimiter
\* line from the last marker line to the end of the file
NeverCloses(f) ==
    /\ LastMarker(f) > 0
    /\ \A i \in LastMarker(f)..Len(f) : ~ClosesAt(f, i)

\* the lines after the last marker line
AfterLastMarker(f) == SubSeq(f, LastMarker(f) + 1, Len(f))

\* the lines hold no string literal with a delimiter inside
NoDelimiterInStrings(lines) ==
    \A i \in DOMAIN lines : \A j \in DOMAIN lines[i] : lines[i][j] \notin StringTokens

\* C1: when the last marker line is followed by a valid balanced JSON value, the
\* scanner returns exactly the lines of that value, from the line after the last
\* marker through the line that closes the value, whatever precedes the last
\* marker.  Stated for files whose marker lines hold nothing but the marker and
\* whose last block is an object or array without delimiters inside strings.
C1_LastBlockExact ==
    pc = "done" =>
        \A k \in (LastMarker(log) + 1)..Len(log) :
            LET block == SubSeq(log, LastMarker(log) + 1, k)
            IN  ( /\ LastMarker(log) > 0
                  /\ \A i \in DOMAIN log : HasKeyword(log[i]) => log[i] = <<"M">>
                  /\ IsJson(Join(block))
                  /\ JsonLoads(Join(block)).t \in {"obj", "arr"}
                  /\ NoDelimiterInStrings(block) )
                => bucket = block

\* json.dumps(J): the tokens of a value
RECURSIVE Dumps(_), DumpsAll(_, _)
Dumps(v) ==
    IF v.t = "num" THEN <<"n">>
    ELSE IF v.t = "str" THEN <<v.s>>
    ELSE IF v.t = "arr" THEN <<"[">> \o DumpsAll(v.e, <<>>) \o <<"]">>
    ELSE <<"{">> \o DumpsAll(v.e, <<"k">>) \o <<"}">>
DumpsAll(vs, key) ==
    IF vs = <<>> THEN <<>>
    ELSE key \o Dumps(Head(vs)) \o (IF Len(vs) > 1 THEN <<",">> ELSE <<>>)
             \o DumpsAll(Tail(vs), key)

\* the objects encoded: {"k": 1}, {"k": "{"}, {"k": "}"}
JsonObjects == {JObj(<<JNum>>), JObj(<<JStr("so")>>), JObj(<<JStr("sc")>>)}

\* the lines of the encoding of an object with one scalar member:
\* on one line, or indented with one member per line
Encode(J, style) ==
    IF style = "compact" THEN <<Dumps(J)>>
    ELSE <<<<"{">>, <<"k">> \o Dumps(J.e[1]), <<"}">>>>

\* C2: round trip: marker line, encoding of J, further non-marker lines
\* decodes to a value equal to J.
C2_RoundTrip ==
    pc = "done" =>
        \A J \in JsonObjects, style \in {"compact", "indent"} :
            LET enc == Encode(J, style)
            IN  ( /\ Len(log) >= 1 + Len(enc)
                  /\ log[1] = <<"M">>
                  /\ SubSeq(log, 2, 1 + Len(enc)) = enc
                  /\ \A i \in (2 + Len(enc))..Len(log) : ~HasKeyword(log[i]) )
                => json_block = J

\* C3 as stated: when the counter never returns to zero on a closing-delimiter
\* line from the last marker to the end of the file, get_last_json_block raises.
C3_NeverClosedRaises ==
    (pc = "done" /\ NeverCloses(log)) => json_block = MtgaLogParsingError

\* C3 as amended: in that case the scanner returns every line after the last
\* marker line through the end of the file, and get_last_json_block raises
\* unless those lines joined are one complete JSON text, whose value it returns.
C3_NeverClosedWholeRest ==
    (pc = "done" /\ NeverCloses(log)) =>
        /\ bucket = AfterLastMarker(log)
        /\ IsJson(Join(AfterLastMarker(log)))
               => json_block = JsonLoads(Join(AfterLastMarker(log)))
        /\ ~IsJson(Join(AfterLastMarker(log)))
               => json_block = MtgaLogParsingError

\* a truncated block: opened after the marker, still open at the end of the file
C3_Witness ==
    /\ pc = "done"
    /\ NeverCloses(log)
    /\ LastMarker(log) = 1
    /\ Len(bucket) >= 2
    /\ levels > 0
    /\ json_block = MtgaLogParsingError

\* C4: when no line holds the marker, the scanner returns the empty buffer and
\* get_last_json_block raises MtgaLogParsingError.
C4_NoMarkerRaises ==
    (pc = "done" /\ LastMarker(log) = 0) =>
        /\ bucket = <<>>
        /\ json_block = MtgaLogParsingError

\* a file without the marker that holds a complete JSON value
C4_Witness ==
    /\ pc = "done"
    /\ LastMarker(log) = 0
    /\ Len(log) >= 2
    /\ IsJson(Join(log))
    /\ json_block = MtgaLogParsingError

(***************************************************************************)
(* Properties of the card resolver                                         *)
(***************************************************************************)
\* generator k exists before and after the step and the step resumed it
Stepped(k) == k \in DOMAIN gens /\ k \in DOMAIN gens' /\ gens'[k] # gens[k]

\* the elements generator k yielded in the step
Yielded(k) == SubSeq(gens'[k].out, Len(gens[k].out) + 1, Len(gens'[k].out))

\* the elements of out yielded for the pair at position p
ElemsAt(out, p) == {j \in DOMAIN out : out[j].pos = p}

\* the element carries the identifier and count of the pair it was yielded for
CarriesPair(g, e) ==
    e.item[1] = g.pairs[e.pos][1] /\ e.item[3] = g.pairs[e.pos][2]

\* C5 as stated: with the fallback flag disabled, consuming lookup_cards yields
\* no element at all for an identifier absent from the local index.
C5_NothingYielded ==
    [][\A k \in DOMAIN gens :
          (Stepped(k) /\ ~fallback) =>
              \A j \in DOMAIN Yielded(k) : Yielded(k)[j].item[1] \in LocalIds]_vars

\* C5 as amended: with the fallback flag disabled, consuming lookup_cards yields
\* exactly one element for an identifier absent from the local index, the
\* unknown-card error value with the pair's identifier and count; no card and
\* no remote result is yielded for it and no remote call is made.
C5_UnknownCardOnly ==
    [][\A k \in DOMAIN gens :
          (Stepped(k) /\ ~fallback) =>
              /\ ret'.remote = 0
              /\ \A j \in DOMAIN Yielded(k) :
                     LET e == Yielded(k)[j]
                     IN  e.item[1] \notin LocalIds =>
                             /\ e.item[2] = Card("MtgaUnknownCard", e.item[1])
                             /\ CarriesPair(gens[k], e)
                             /\ ElemsAt(gens[k].out, e.pos) = {}
              /\ gens[k].at = "miss" =>
                     /\ gens'[k].i > gens[k].i
                     /\ Cardinality(ElemsAt(gens'[k].out, gens[k].i)) = 1]_vars

\* a generator created and consumed with the flag disabled went past an absent
\* identifier, for which the consumer holds the unknown-card value alone
C5_Witness ==
    /\ ~fallback
    /\ ret.op = "next"
    /\ \E k \in DOMAIN gens :
           /\ ~gens[k].fb0
           /\ gens[k].i > 1
           /\ gens[k].pairs[1][1] \notin LocalIds
           /\ \A j \in ElemsAt(gens[k].out, 1) :
                  gens[k].out[j].item[2].kind = "MtgaUnknownCard"
           /\ Cardinality(ElemsAt(gens[k].out, 1)) = 1

\* C6: with fallback enabled, when the remote lookup raises for an identifier
\* absent locally, the generator yields the wrapped remote-error value for it,
\* no exception reaches the consumer, and every later pair is resolved and
\* yielded: an exhausted generator holds an element for every pair.
C6_RemoteErrorWrapped ==
    [][\A k \in DOMAIN gens :
          Stepped(k) =>
              /\ gens'[k].at # "raised"
              /\ ret'.raised = ""
              /\ (gens[k].at = "miss" /\ fallback
                      /\ get_mtga_card(gens[k].pairs[gens[k].i][1]).raised) =>
                     /\ Len(Yielded(k)) = 1
                     /\ Yielded(k)[1].pos = gens[k].i
                     /\ Yielded(k)[1].item[2] =
                            Card("ScryfallError", gens[k].pairs[gens[k].i][1])
                     /\ CarriesPair(gens[k], Yielded(k)[1])
                     /\ gens'[k].at = "start"
                     /\ gens'[k].i = gens[k].i + 1
              /\ gens'[k].at = "done" =>
                     \A p \in DOMAIN gens'[k].pairs : ElemsAt(gens'[k].out, p) # {}]_vars

\* an exhausted generator whose first pair got the wrapped remote error and
\* whose second pair was resolved after it
C6_Witness ==
    /\ fallback
    /\ \E k \in DOMAIN gens :
           /\ gens[k].at = "done"
           /\ Len(gens[k].pairs) >= 2
           /\ \E j \in ElemsAt(gens[k].out, 1) :
                  gens[k].out[j].item[2].kind = "ScryfallError"
           /\ ElemsAt(gens[k].out, 2) # {}

\* C7: no remote lookup is made for an identifier present in the local index,
\* whatever the flag; a remote call is made only after a local miss with the
\* fallback enabled, and for the identifier that missed.
C7_NoRemoteForLocal ==
    /\ ret.remote # 0 => (ret.remote \notin LocalIds /\ fallback)
    /\ (ret.op = "lookup_card" /\ ret.arg \in LocalIds) =>
           (ret.remote = 0 /\ ret.card = Card("card", ret.arg))
    /\ (ret.op = "lookup_card" /\ ret.remote # 0) => ret.remote = ret.arg
    /\ (ret.op = "next" /\ ret.remote # 0) =>
           \E j \in DOMAIN gens[ret.arg].out :
               /\ gens[ret.arg].out[j].item[1] = ret.remote
               /\ gens[ret.arg].out[j].item[2].kind = "MtgaUnknownCard"

\* a local identifier was resolved by lookup_cards with the fallback enabled and
\* no remote call was made
C7_Witness ==
    /\ fallback
    /\ ret.op = "next"
    /\ ret.remote = 0
    /\ LET g == gens[ret.arg]
       IN  /\ g.out # <<>>
           /\ g.out[Len(g.out)].item[1] \in LocalIds
           /\ g.out[Len(g.out)].item[2].kind = "card"

\* the elements a generator yields when the flag keeps the value fb
RECURSIVE RunAll(_, _)
RunAll(g, fb) ==
    IF g.at \in {"done", "raised"} THEN g.out ELSE RunAll(NextGen(g, fb), fb)

IsPrefix(a, b) == Len(a) <= Len(b) /\ SubSeq(b, 1, Len(a)) = a

\* C10 as stated: the elements a lazy sequence produces are those it would
\* produce had the flag kept the value it had when the sequence was obtained.
C10_FlagAtCallDecides ==
    \A k \in DOMAIN gens :
        IsPrefix(gens[k].out, RunAll(NewGen(gens[k].pairs, gens[k].fb0), gens[k].fb0))

\* C10 as amended: the flag value at the time an element is consumed decides.
\* A sequence suspended after the unknown-card value of an absent identifier
\* yields the remote result for it exactly when the flag is enabled at that
\* time, whatever the flag was when the sequence was obtained; elements already
\* produced never change, and a toggle itself produces nothing.
C10_FlagAtConsumeDecides ==
    [][\A k \in DOMAIN gens :
          /\ k \in DOMAIN gens'
          /\ IsPrefix(gens[k].out, gens'[k].out)
          /\ fallback' # fallback => gens'[k] = gens[k]
          /\ (Stepped(k) /\ gens[k].at = "miss") =>
                 /\ fallback => /\ Yielded(k) # <<>>
                                /\ Yielded(k)[1].pos = gens[k].i
                                /\ Yielded(k)[1].item[2].kind
                                       \in {"scryfall_card", "ScryfallError"}
                 /\ ~fallback => \A j \in DOMAIN Yielded(k) :
                                     Yielded(k)[j].pos > gens[k].i]_vars

\* a sequence obtained with the flag enabled went past an absent identifier
\* after the flag was disabled, and holds no remote result for it
C10_Witness ==
    /\ ~fallback
    /\ \E k \in DOMAIN gens :
           /\ gens[k].fb0
           /\ gens[k].i > 1
           /\ gens[k].pairs[1][1] \in RemoteIds
           /\ Cardinality(ElemsAt(gens[k].out, 1)) = 1

(***************************************************************************)
(* Properties of the deck list and of the formats lookup                   *)
(***************************************************************************)
\* C8: building a deck list from an entry whose mainDeck or sideboard array has
\* odd length is reported as a decoding error; the deck is never built from the
\* first floor(n/2) pairs.
C8_OddLengthIsError ==
    (deck # NoDeck /\ DeckKeys \subseteq deck.deck_list_json[1].keys
        /\ (Len(deck.deck_list_json[1].mainDeck) % 2 = 1
              \/ Len(deck.deck_list_json[1].sideboard) % 2 = 1))
    => (~deck.built /\ deck.raised = "MtgaLogParsingError")

\* the set codes with "DOM" inserted immediately after each "DAR"
RECURSIVE DomAfterDar(_)
DomAfterDar(codes) ==
    IF codes = <<>> THEN <<>>
    ELSE (IF Head(codes) = "DAR" THEN <<"DAR", "DOM">> ELSE <<Head(codes)>>)
             \o DomAfterDar(Tail(codes))

\* the items of the table whose name equals the query up to letter case
SameNameItems(table, q) == {i \in DOMAIN table : Lower(table[i].name) = Lower(q)}

\* C9: the format name is matched case-insensitively: a query equal to a stored
\* name up to letter case gets that format's set codes in stored order with
\* "DOM" after each "DAR"; a query matching no format gets the empty sequence.
C9_CaseInsensitive ==
    (sets_result.called /\ formats_json.valid) =>
        LET same == SameNameItems(formats_json.data, sets_result.mtg_format)
        IN  /\ sets_result.raised = ""
            /\ same = {} => sets_result.sets = <<>>
            /\ \A i \in same :
                   same = {i} => sets_result.sets = DomAfterDar(formats_json.data[i].sets)

====
